---- MODULE Spec2Model ----
(***************************************************************************)
(* Model of the product service: the generic request dispatcher `handle`,  *)
(* the GetProduct / CreateProduct handlers, the "http-client" circuit      *)
(* breaker (sony/gobreaker, configured in NewGetProductHandler) and the    *)
(* retrying HTTP client (hashicorp/go-retryablehttp, configured in main).  *)
(*                                                                         *)
(* Time is counted in seconds and read at multiples of ClockStep.  The      *)
(* breaker holds a single instant, expiry, and compares it with the clock  *)
(* by expiry.Before(now) only; with Interval and Timeout multiples of the  *)
(* step, the clock reaches an instant before, at and after every expiry.   *)
(* Every request is one goroutine; the breaker's beforeRequest and         *)
(* afterRequest run under the breaker's mutex and are single atomic steps. *)
(***************************************************************************)
EXTENDS Integers, Sequences, FiniteSets, TLC

\* ---------------------------------------------------------------- bounds
\* Clock steps that may pass and requests that may arrive, per specification,
\* and the largest RetryMax tried.
MaxTicks == 3
MaxCalls == 7
MaxRetryMax == 2
MaxRetryCalls == 1
MaxRetryTicks == 1
MaxBindCalls == 2
MaxBindTicks == 1

\* ------------------------------------------------- program constants
MaxRequests == 3
Interval == 5
Timeout == 10
MinRequests == 3
RatioNum == 3
RatioDen == 5
RetryMax == 0
StatusOK == 200
StatusBadRequest == 400
StatusInternalServerError == 500
ZeroTime == -1

ClockStep == Interval

\* The goroutines serving requests at the same time.
Reqs == {"g1", "g2"}

VARIABLES now, breaker, req, budget, retryMax

vars == <<now, breaker, req, budget, retryMax>>

\* ------------------------------------------------------- gobreaker.Counts
ZeroCounts ==
  [Requests |-> 0, TotalSuccesses |-> 0, TotalFailures |-> 0,
   ConsecutiveSuccesses |-> 0, ConsecutiveFailures |-> 0]

CountsOnRequest(c) == [c EXCEPT !.Requests = @ + 1]

CountsOnSuccess(c) ==
  [c EXCEPT !.TotalSuccesses = @ + 1, !.ConsecutiveSuccesses = @ + 1,
            !.ConsecutiveFailures = 0]

CountsOnFailure(c) ==
  [c EXCEPT !.TotalFailures = @ + 1, !.ConsecutiveFailures = @ + 1,
            !.ConsecutiveSuccesses = 0]

\* float64(TotalFailures)/float64(Requests) >= 0.6, in integers: for the small
\* counts reached here the correctly rounded quotient is >= the double 0.6
\* exactly when 5*TotalFailures >= 3*Requests.  Requests = 0 gives NaN or +Inf
\* in Go; the conjunct Requests >= 3 is false then.
ReadyToTrip_StrictRatio(c) ==
  c.Requests >= MinRequests /\ RatioDen * c.TotalFailures > RatioNum * c.Requests

ReadyToTrip(c) ==
  c.Requests >= MinRequests /\ RatioDen * c.TotalFailures >= RatioNum * c.Requests

\* ------------------------------------------------ gobreaker.CircuitBreaker
toNewGeneration(cb, t) ==
  [cb EXCEPT !.generation = @ + 1,
             !.counts = ZeroCounts,
             !.expiry = CASE cb.state = "closed" -> IF Interval = 0 THEN ZeroTime ELSE t + Interval
                          [] cb.state = "open" -> t + Timeout
                          [] OTHER -> ZeroTime]

setState(cb, st, t) ==
  IF cb.state = st THEN cb
  ELSE toNewGeneration([cb EXCEPT !.state = st,
                                  !.lastChange = [from |-> cb.state, to |-> st]], t)

currentState(cb, t) ==
  CASE cb.state = "closed" ->
         IF cb.expiry # ZeroTime /\ cb.expiry < t THEN toNewGeneration(cb, t) ELSE cb
    [] cb.state = "open" ->
         IF cb.expiry < t THEN setState(cb, "halfopen", t) ELSE cb
    [] OTHER -> cb

beforeRequest_OpenAdmits(cb, t) ==
  LET c == currentState(cb, t) IN
  IF c.state = "halfopen" /\ c.counts.Requests >= MaxRequests
  THEN [cb |-> c, err |-> "ErrTooManyRequests"]
  ELSE [cb |-> [c EXCEPT !.counts = CountsOnRequest(c.counts)], err |-> "nil"]

\* beforeRequest: the breaker after the call and the error it returns
\* ("nil" when the call is admitted).
beforeRequest(cb, t) ==
  LET c == currentState(cb, t) IN
  IF c.state = "open" THEN [cb |-> c, err |-> "ErrOpenState"]
  ELSE IF c.state = "halfopen" /\ c.counts.Requests >= MaxRequests
       THEN [cb |-> c, err |-> "ErrTooManyRequests"]
       ELSE [cb |-> [c EXCEPT !.counts = CountsOnRequest(c.counts)], err |-> "nil"]

onSuccess_OneTooMany(cb, t) ==
  CASE cb.state = "closed" -> [cb EXCEPT !.counts = CountsOnSuccess(cb.counts)]
    [] cb.state = "halfopen" ->
         LET c == [cb EXCEPT !.counts = CountsOnSuccess(cb.counts)] IN
         IF c.counts.ConsecutiveSuccesses > MaxRequests THEN setState(c, "closed", t) ELSE c
    [] OTHER -> cb

onSuccess(cb, t) ==
  CASE cb.state = "closed" -> [cb EXCEPT !.counts = CountsOnSuccess(cb.counts)]
    [] cb.state = "halfopen" ->
         LET c == [cb EXCEPT !.counts = CountsOnSuccess(cb.counts)] IN
         IF c.counts.ConsecutiveSuccesses >= MaxRequests THEN setState(c, "closed", t) ELSE c
    [] OTHER -> cb

onFailure_ProbeCounted(cb, t) ==
  CASE cb.state = "closed" ->
         LET c == [cb EXCEPT !.counts = CountsOnFailure(cb.counts)] IN
         IF ReadyToTrip(c.counts) THEN setState(c, "open", t) ELSE c
    [] cb.state = "halfopen" ->
         LET c == [cb EXCEPT !.counts = CountsOnFailure(cb.counts)] IN
         IF ReadyToTrip(c.counts) THEN setState(c, "open", t) ELSE c
    [] OTHER -> cb

onFailure(cb, t) ==
  CASE cb.state = "closed" ->
         LET c == [cb EXCEPT !.counts = CountsOnFailure(cb.counts)] IN
         IF ReadyToTrip(c.counts) THEN setState(c, "open", t) ELSE c
    [] cb.state = "halfopen" -> setState(cb, "open", t)
    [] OTHER -> cb

afterRequest_AnyGeneration(cb, before, success, t) ==
  LET c == currentState(cb, t) IN
  IF success THEN onSuccess(c, t) ELSE onFailure(c, t)

\* afterRequest: under the breaker's mutex, the result of a call admitted in
\* generation `before` is recorded only while that generation is the present one.
afterRequest(cb, before, success, t) ==
  LET c == currentState(cb, t) IN
  IF c.generation # before THEN c
  ELSE IF success THEN onSuccess(c, t) ELSE onFailure(c, t)

NewCircuitBreaker(t) ==
  toNewGeneration([state |-> "closed", generation |-> 0, counts |-> ZeroCounts,
                   expiry |-> ZeroTime, lastChange |-> [from |-> "none", to |-> "closed"]], t)

\* --------------------------------------------- retryablehttp client (main)
\* One HTTP attempt ends in one of:
\*   "ok"     a response whose status is not retried (Do returns it as success)
\*   "neterr" a transport error the default policy retries
\*   "5xx"    a response with status 429 or 5xx (except 501), which is retried
\*   "fatal"  a transport error the default policy does not retry
Outcomes == {"ok", "neterr", "5xx", "fatal"}
Retryable == {"neterr", "5xx"}

\* retryablehttp.DefaultRetryPolicy: [retry, err].
DefaultRetryPolicy(cancelled, outcome) ==
  IF cancelled THEN [retry |-> FALSE, err |-> "ErrCanceled"]
  ELSE [retry |-> outcome \in Retryable, err |-> "nil"]

CheckRetry_IgnoresContext(cancelled, outcome) ==
  [retry |-> outcome \in Retryable, err |-> "nil"]

\* retryClient.CheckRetry as set in main.
CheckRetry(cancelled, outcome) ==
  IF cancelled THEN [retry |-> FALSE, err |-> "ErrCanceled"]
  ELSE DefaultRetryPolicy(cancelled, outcome)

\* The error Client.Do returns once its loop is left: nil only when the attempt
\* gave a response, CheckRetry gave no error and asked for no retry; otherwise
\* CheckRetry's error, else the attempt's own error, else (a retried status
\* with no retry left) the bare "giving up" error.
DoResult(outcome, chk) ==
  IF outcome \in {"ok", "5xx"} /\ chk.err = "nil" /\ ~chk.retry THEN "nil"
  ELSE IF chk.err # "nil" THEN chk.err
  ELSE CASE outcome = "neterr" -> "ErrTransport"
         [] outcome = "fatal" -> "ErrFatal"
         [] OTHER -> "ErrGiveUp"

DoContinues_OneMore(rmax, i, chk) == chk.retry /\ rmax - i >= 0

\* Whether the loop of Client.Do goes on to another attempt after attempt
\* number i (counted from 0): `if !shouldRetry {break}; remain := RetryMax - i;
\* if remain <= 0 {break}`.
DoContinues(rmax, i, chk) == chk.retry /\ rmax - i > 0

\* ------------------------------------------------------- fiber binding
CTypes == {"none", "json"}
Bodies == {"empty", "good", "bad"}
Names == {"Widget"}
Ids == {"u1", "u2"}

\* The value of a `name` key in the query string and of a `Name` header
\* ("": the request carries none).
QueryNames == {"", "Gizmo"}
HeaderNames == {"", "Sprocket"}

\* A request as the binder sees it: the Content-Type header and the body, the
\* name the body carries when it is well formed, whether the path parameters,
\* the query and the headers can be decoded into the request type, and the
\* name the query and the headers carry.  Only CreateProductRequest has a Name
\* field; for GetProductRequest such keys are unknown and ignored.
Inputs ==
  { in \in [route : {"GET", "POST"}, ctype : CTypes, body : Bodies, name : Names \cup {""},
            params : BOOLEAN, query : BOOLEAN, headers : BOOLEAN,
            qname : QueryNames, hname : HeaderNames] :
      /\ (in.name # "") = (in.body = "good")
      /\ in.qname # "" => in.route = "POST" /\ in.query
      /\ in.hname # "" => in.route = "POST" /\ in.headers }

\* GET /products/:id as a client sends it: no body, no Content-Type.
BareGets ==
  { in \in Inputs : in.route = "GET" /\ in.ctype = "none" /\ in.body = "empty"
                    /\ in.params /\ in.query /\ in.headers
                    /\ in.qname = "" /\ in.hname = "" }

NoInput == [route |-> "none"]

\* ctx.BodyParser: decoding is chosen by Content-Type; with no supported
\* Content-Type it returns ErrUnprocessableEntity whatever the body holds, and
\* the JSON decoder rejects an empty body as it rejects a malformed one.
BodyParser(in) ==
  IF in.ctype = "json"
  THEN IF in.body = "good" THEN "nil" ELSE "error"
  ELSE "ErrUnprocessableEntity"

Bind_UnprocessableFails(in) ==
  IF BodyParser(in) # "nil" THEN [tried |-> 1, failed |-> "body"]
  ELSE IF ~in.params THEN [tried |-> 2, failed |-> "params"]
  ELSE IF ~in.query THEN [tried |-> 3, failed |-> "query"]
  ELSE IF ~in.headers THEN [tried |-> 4, failed |-> "headers"]
  ELSE [tried |-> 4, failed |-> "none"]

\* The binding part of `handle`: how many sources were attempted and which one
\* failed ("none": all four were bound).
Bind(in) ==
  IF BodyParser(in) \notin {"nil", "ErrUnprocessableEntity"} THEN [tried |-> 1, failed |-> "body"]
  ELSE IF ~in.params THEN [tried |-> 2, failed |-> "params"]
  ELSE IF ~in.query THEN [tried |-> 3, failed |-> "query"]
  ELSE IF ~in.headers THEN [tried |-> 4, failed |-> "headers"]
  ELSE [tried |-> 4, failed |-> "none"]

\* The Name field of the bound request.  The four parsers write into the same
\* value in turn, each setting the fields it finds a key for (the field has no
\* query or header tag, so its key is the field's name): the body sets it when
\* it was decoded, then a `name` in the query overwrites it, then a `Name`
\* header does.
BoundName(in) ==
  IF in.hname # "" THEN in.hname
  ELSE IF in.qname # "" THEN in.qname
  ELSE IF BodyParser(in) = "nil" THEN in.name
  ELSE ""

\* The status `handle` writes for a handler result.
HandlerStatus(err) == IF err # "nil" THEN StatusInternalServerError ELSE StatusOK

\* ---------------------------------------------------------------- state
\* req[r]: the request goroutine r is serving.
\*   pc        where it is: idle, handle (bound, handler not yet called),
\*             attempt, backoff, after (Client.Do returned), store (reading
\*             the response body), lookup (waiting for repository.GetProduct),
\*             create (waiting for repository.CreateProduct), done
\*   in        the request; tried: the sources the binder attempted
\*   invoked   calls of the business handler
\*   gen       the breaker generation beforeRequest returned
\*   hist      the outcomes of the HTTP attempts made
\*   cancelled ctx.Err() # nil
\*   exec      what breaker.Execute returned ("none": not returned yet)
\*   err       what the handler returned; stored: repository.GetProduct was called
\*   created   the product passed to repository.CreateProduct
\*   status, body   the response
NoProduct == [id |-> "none", name |-> "none"]

IdleReq ==
  [pc |-> "idle", in |-> NoInput, tried |-> 0, invoked |-> 0, gen |-> 0,
   hist |-> <<>>, cancelled |-> FALSE, exec |-> "none", err |-> "none",
   stored |-> FALSE, created |-> NoProduct, status |-> 0, body |-> "none"]

InitCommon ==
  /\ now = 0
  /\ breaker = NewCircuitBreaker(0)
  /\ req = [r \in Reqs |-> IdleReq]

InitBreaker ==
  /\ InitCommon
  /\ budget = [ticks |-> MaxTicks, calls |-> MaxCalls]
  /\ retryMax = RetryMax

InitRetry ==
  /\ InitCommon
  /\ budget = [ticks |-> MaxRetryTicks, calls |-> MaxRetryCalls]
  /\ retryMax \in 0..MaxRetryMax

InitDispatch ==
  /\ InitCommon
  /\ budget = [ticks |-> MaxBindTicks, calls |-> MaxBindCalls]
  /\ retryMax = RetryMax

Respond(q, err, body) ==
  [q EXCEPT !.pc = "done", !.err = err, !.status = HandlerStatus(err),
            !.body = IF err # "nil" THEN "error" ELSE body]

\* time.Now() advances.
Tick ==
  /\ budget.ticks > 0
  /\ now' = now + ClockStep
  /\ budget' = [budget EXCEPT !.ticks = @ - 1]
  /\ UNCHANGED <<breaker, req, retryMax>>

\* `handle`, from the arrival of a request to the call of the handler: the four
\* parsers in order, 400 at the first one that fails.
Dispatch(r, in) ==
  /\ req[r].pc = "idle"
  /\ budget.calls > 0
  /\ budget' = [budget EXCEPT !.calls = @ - 1]
  /\ LET b == Bind(in) IN
     req' = [req EXCEPT ![r] =
       IF b.failed # "none"
       THEN [@ EXCEPT !.pc = "done", !.in = in, !.tried = b.tried,
                      !.status = StatusBadRequest, !.body = "error"]
       ELSE [@ EXCEPT !.pc = "handle", !.in = in, !.tried = b.tried]]
  /\ UNCHANGED <<now, breaker, retryMax>>

\* GetProductHandler.Handle up to breaker.Execute's beforeRequest.
Gate(r) ==
  /\ req[r].pc = "handle"
  /\ req[r].in.route = "GET"
  /\ LET b == beforeRequest(breaker, now) IN
     /\ breaker' = b.cb
     /\ req' = [req EXCEPT ![r] =
          IF b.err # "nil"
          THEN Respond([@ EXCEPT !.invoked = 1, !.exec = b.err], b.err, "none")
          ELSE [@ EXCEPT !.pc = "attempt", !.invoked = 1, !.gen = b.cb.generation]]
  /\ UNCHANGED <<now, budget, retryMax>>

\* One pass of the loop of retryablehttp.Client.Do: the attempt, CheckRetry,
\* and the decision to stop or to wait for the next attempt.
Attempt(r, outcome) ==
  /\ req[r].pc = "attempt"
  /\ LET q == req[r]
         chk == CheckRetry(q.cancelled, outcome)
         h == Append(q.hist, outcome) IN
     req' = [req EXCEPT ![r] =
       IF DoContinues(retryMax, Len(q.hist), chk)
       THEN [q EXCEPT !.pc = "backoff", !.hist = h]
       ELSE [q EXCEPT !.pc = "after", !.hist = h, !.exec = DoResult(outcome, chk)]]
  /\ UNCHANGED <<now, breaker, budget, retryMax>>

\* The wait between attempts: `select` on the timer ...
BackoffTimer(r) ==
  /\ req[r].pc = "backoff"
  /\ req' = [req EXCEPT ![r].pc = "attempt"]
  /\ UNCHANGED <<now, breaker, budget, retryMax>>

\* ... or on the context's Done channel, which returns ctx.Err().
BackoffDone(r) ==
  /\ req[r].pc = "backoff"
  /\ req[r].cancelled
  /\ req' = [req EXCEPT ![r] = [@ EXCEPT !.pc = "after", !.exec = "ErrCanceled"]]
  /\ UNCHANGED <<now, breaker, budget, retryMax>>

\* The caller's context is cancelled (or its deadline passes) while the
\* dependency call is under way.
Cancel(r) ==
  /\ req[r].pc \in {"attempt", "backoff"}
  /\ ~req[r].cancelled
  /\ req' = [req EXCEPT ![r].cancelled = TRUE]
  /\ UNCHANGED <<now, breaker, budget, retryMax>>

AfterExecute_ErrorIgnored(q) == [q EXCEPT !.pc = "store"]

\* What Handle does with Execute's result: an error is returned as it is,
\* otherwise the body is read and the repository is asked.
AfterExecute(q) ==
  IF q.exec # "nil" THEN Respond(q, q.exec, "none") ELSE [q EXCEPT !.pc = "store"]

\* breaker.Execute's afterRequest, and Handle's check of the error.
AfterReq(r) ==
  /\ req[r].pc = "after"
  /\ breaker' = afterRequest(breaker, req[r].gen, req[r].exec = "nil", now)
  /\ req' = [req EXCEPT ![r] = AfterExecute(@)]
  /\ UNCHANGED <<now, budget, retryMax>>

ReadResults == {"nil", "ErrRead"}
StoreResults == {"nil", "ErrNotFound", "ErrStore"}
CreateResults == {"nil", "ErrStore"}

\* io.ReadAll of the response body returns: an error ("ErrRead") is returned
\* as it is, otherwise repository.GetProduct is called.
ReadBody(r, res) ==
  /\ req[r].pc = "store"
  /\ req' = [req EXCEPT ![r] =
       IF res # "nil" THEN Respond(@, res, "none")
       ELSE [@ EXCEPT !.pc = "lookup", !.stored = TRUE]]
  /\ UNCHANGED <<now, breaker, budget, retryMax>>

\* repository.GetProduct returns, and with it the handler and `handle`.
StoreGet(r, res) ==
  /\ req[r].pc = "lookup"
  /\ req' = [req EXCEPT ![r] = Respond(@, res, "product")]
  /\ UNCHANGED <<now, breaker, budget, retryMax>>

\* CreateProductHandler.Handle up to the call of repository.CreateProduct.
Create(r, id) ==
  /\ req[r].pc = "handle"
  /\ req[r].in.route = "POST"
  /\ req' = [req EXCEPT ![r] =
       [@ EXCEPT !.pc = "create", !.invoked = 1,
                 !.created = [id |-> id, name |-> BoundName(req[r].in)]]]
  /\ UNCHANGED <<now, breaker, budget, retryMax>>

\* repository.CreateProduct returns, and with it the handler and `handle`.
CreateReturn(r, res) ==
  /\ req[r].pc = "create"
  /\ req' = [req EXCEPT ![r] = Respond(@, res, @.created.id)]
  /\ UNCHANGED <<now, breaker, budget, retryMax>>

\* The response is written and the request's values are dropped.
Reset(r) ==
  /\ req[r].pc = "done"
  /\ req' = [req EXCEPT ![r] = IdleReq]
  /\ UNCHANGED <<now, breaker, budget, retryMax>>

\* The GET pipeline with the retry client as main configures it (RetryMax = 0)
\* under bodiless GET requests.
NextBreaker ==
  \/ Tick
  \/ \E r \in Reqs, in \in BareGets : Dispatch(r, in)
  \/ \E r \in Reqs : Gate(r)
  \/ \E r \in Reqs, o \in Outcomes : Attempt(r, o)
  \/ \E r \in Reqs : Cancel(r)
  \/ \E r \in Reqs : AfterReq(r)
  \/ \E r \in Reqs, res \in ReadResults : ReadBody(r, res)
  \/ \E r \in Reqs, res \in StoreResults : StoreGet(r, res)
  \/ \E r \in Reqs : Reset(r)

\* The same with a retry client of any RetryMax.
NextRetry ==
  \/ NextBreaker
  \/ \E r \in Reqs : BackoffTimer(r)
  \/ \E r \in Reqs : BackoffDone(r)

\* Both routes under every request the binder may see (contexts are not
\* cancelled here).
NextDispatch ==
  \/ Tick
  \/ \E r \in Reqs, in \in Inputs : Dispatch(r, in)
  \/ \E r \in Reqs : Gate(r)
  \/ \E r \in Reqs, o \in Outcomes : Attempt(r, o)
  \/ \E r \in Reqs : AfterReq(r)
  \/ \E r \in Reqs, res \in ReadResults : ReadBody(r, res)
  \/ \E r \in Reqs, res \in StoreResults : StoreGet(r, res)
  \/ \E r \in Reqs, id \in Ids : Create(r, id)
  \/ \E r \in Reqs, res \in CreateResults : CreateReturn(r, res)
  \/ \E r \in Reqs : Reset(r)

SpecBreaker == InitBreaker /\ [][NextBreaker]_vars

SpecRetry == InitRetry /\ [][NextRetry]_vars

SpecDispatch == InitDispatch /\ [][NextDispatch]_vars

\* ================================================================ claims
\* A step in which goroutine r passes breaker.Execute's beforeRequest.
GateStep(r) ==
  req[r].pc = "handle" /\ req[r].in.route = "GET" /\ req'[r].pc # "handle"

\* A step in which the result of r's dependency call reaches afterRequest.
ResultStep(r) == req[r].pc = "after" /\ req'[r].pc # "after"

\* r's call was admitted in the breaker's present generation, and in Closed the
\* counting window has not run out.
InWindow(r) ==
  /\ req[r].gen = breaker.generation
  /\ breaker.state = "closed" => ~(breaker.expiry # ZeroTime /\ breaker.expiry < now)

Rejected(q, e) ==
  /\ q.pc = "done" /\ q.exec = e /\ q.err = e
  /\ q.hist = <<>> /\ ~q.stored /\ q.body = "error"

\* The thresholds of the "http-client" breaker on r requests with f failures.
Thresholds(r, f) == r >= 3 /\ 10 * f >= 6 * r

\* ---- C1
\* C1 as stated: while Closed, every call result recorded in the window,
\* success or failure, that leaves the window with Requests >= 3 and
\* TotalFailures/Requests >= 0.6 opens the breaker.
C1_AnyResultTrips ==
  [][\A r \in Reqs :
       (/\ ResultStep(r) /\ breaker.state = "closed" /\ InWindow(r)
        /\ breaker'.state = "closed")
       => ~Thresholds(breaker'.counts.Requests, breaker'.counts.TotalFailures)]_vars

\* C1 amended: while Closed the breaker opens on exactly the recorded FAILURES
\* that leave the window with Requests >= 3 and TotalFailures/Requests >= 0.6
\* (it then starts the open timer at that instant and clears the counts); a
\* success never opens it, whatever the counts, and nothing else opens it.
C1_FailureTrips ==
  [][/\ \A r \in Reqs :
          (ResultStep(r) /\ breaker.state = "closed")
          => /\ (breaker'.state = "open")
                  <=> (/\ InWindow(r) /\ req[r].exec # "nil"
                       /\ Thresholds(breaker.counts.Requests,
                                     breaker.counts.TotalFailures + 1))
             /\ breaker'.state \in {"closed", "open"}
             /\ breaker'.state = "open"
                  => /\ breaker'.expiry = now + 10
                     /\ breaker'.counts.Requests = 0
                     /\ breaker'.counts.TotalFailures = 0
     /\ (breaker.state = "closed" /\ breaker'.state # "closed")
          => \E r \in Reqs : ResultStep(r)]_vars

\* The breaker has just been opened from Closed by the failure of a call whose
\* response is still held.
C1_Witness ==
  /\ breaker.state = "open"
  /\ breaker.lastChange = [from |-> "closed", to |-> "open"]
  /\ \E r \in Reqs :
       /\ req[r].pc = "done" /\ req[r].hist # <<>> /\ req[r].exec # "nil"
       /\ req[r].gen + 1 = breaker.generation

\* ---- C2
\* C2: a GetProduct call that reaches the breaker while it is Open and fewer
\* than 10 seconds have passed since it opened fails with ErrOpenState, and no
\* HTTP attempt and no store lookup is made for it.
C2_OpenRejects ==
  [][\A r \in Reqs :
       (/\ GateStep(r) /\ breaker.state = "open"
        /\ now - (breaker.expiry - 10) < 10)
       => /\ Rejected(req'[r], "ErrOpenState")
          /\ breaker'.state = "open"
          /\ breaker'.counts = breaker.counts]_vars

C2_Witness ==
  /\ breaker.state = "open" /\ now < breaker.expiry
  /\ \E r \in Reqs : Rejected(req[r], "ErrOpenState")

\* ---- C3
\* The calls admitted in the breaker's present generation and not yet reported
\* back to it.
InFlight == { r \in Reqs : req[r].pc \in {"attempt", "backoff", "after"}
                           /\ req[r].gen = breaker.generation }

\* What holds of HalfOpen in every state: no more than 3 calls are admitted,
\* none of them has failed, and each is under way or recorded as a success.
ProbeBounds ==
  breaker.state = "halfopen"
    => /\ breaker.counts.Requests <= 3
       /\ breaker.counts.TotalFailures = 0
       /\ breaker.counts.TotalSuccesses + Cardinality(InFlight)
            = breaker.counts.Requests

\* The step admits r's call as the first probe of a new HalfOpen period.
AdmittedHalfOpen(r) ==
  /\ req'[r].pc = "attempt"
  /\ breaker'.state = "halfopen"
  /\ breaker'.counts.Requests = 1
  /\ req'[r].gen = breaker'.generation

\* What holds of r's steps in HalfOpen: a call is admitted while fewer than 3
\* were (a further one gets ErrTooManyRequests and makes no attempt), and the
\* third consecutive success of the probes closes the breaker with every count
\* zero, while fewer leave it HalfOpen.
ProbeSteps(r) ==
  /\ (GateStep(r) /\ breaker.state = "halfopen")
       => IF breaker.counts.Requests < 3
          THEN req'[r].pc = "attempt" /\ req'[r].gen = breaker.generation
          ELSE Rejected(req'[r], "ErrTooManyRequests") /\ breaker' = breaker
  /\ (ResultStep(r) /\ breaker.state = "halfopen" /\ InWindow(r)
      /\ req[r].exec = "nil")
       => IF breaker.counts.ConsecutiveSuccesses + 1 >= 3
          THEN /\ breaker'.state = "closed"
               /\ breaker'.counts.Requests = 0
               /\ breaker'.counts.TotalSuccesses = 0
               /\ breaker'.counts.TotalFailures = 0
               /\ breaker'.counts.ConsecutiveSuccesses = 0
               /\ breaker'.counts.ConsecutiveFailures = 0
          ELSE /\ breaker'.state = "halfopen"
               /\ breaker'.counts.ConsecutiveSuccesses
                    = breaker.counts.ConsecutiveSuccesses + 1

\* C3 as stated: once 10 seconds have elapsed since the breaker opened (now is
\* at least the instant of opening + 10) the next call is admitted and the
\* breaker is HalfOpen; in HalfOpen no more than 3 calls are admitted; and the
\* third consecutive success of the probes closes the breaker with every count
\* zero.
C3_AdmitsAtTimeout ==
  /\ []ProbeBounds
  /\ [][\A r \in Reqs :
          /\ (GateStep(r) /\ breaker.state = "open"
              /\ now - (breaker.expiry - 10) >= 10)
               => AdmittedHalfOpen(r)
          /\ ProbeSteps(r)]_vars

\* C3 amended: once MORE than 10 seconds have elapsed since the breaker opened
\* (the breaker's expiry lies before now) the next call is admitted and the
\* breaker is HalfOpen, while a call arriving at exactly 10 seconds, like any
\* earlier one, is still rejected with ErrOpenState and leaves the breaker
\* Open; in HalfOpen no more than 3 calls are admitted (a further one gets
\* ErrTooManyRequests and makes no attempt); and the third consecutive success
\* of the probes closes the breaker with every count zero, while fewer leave
\* it HalfOpen.
C3_HalfOpenProbes ==
  /\ []ProbeBounds
  /\ [][\A r \in Reqs :
          /\ (GateStep(r) /\ breaker.state = "open"
              /\ now - (breaker.expiry - 10) > 10)
               => AdmittedHalfOpen(r)
          /\ (GateStep(r) /\ breaker.state = "open"
              /\ now - (breaker.expiry - 10) <= 10)
               => /\ Rejected(req'[r], "ErrOpenState")
                  /\ breaker' = breaker
          /\ ProbeSteps(r)]_vars

\* A call that arrived exactly 10 seconds after the breaker opened and was
\* rejected by it.
C3_BoundaryRejected ==
  /\ breaker.state = "open" /\ now = breaker.expiry
  /\ \E r \in Reqs : Rejected(req[r], "ErrOpenState")

\* Three probes succeeded and closed the breaker; the last one's response is
\* still held.
C3_Witness ==
  /\ breaker.state = "closed"
  /\ breaker.lastChange = [from |-> "halfopen", to |-> "closed"]
  /\ breaker.counts = ZeroCounts
  /\ \E r \in Reqs : req[r].pc \in {"store", "lookup", "done"} /\ req[r].exec = "nil"
                     /\ req[r].gen + 1 = breaker.generation

\* ---- C4
\* C4: in HalfOpen the failure of a probe opens the breaker at once, however
\* many probes succeeded before it, and the open timer starts again at that
\* instant: the expiry is now + 10 seconds, and every call up to it is
\* rejected with ErrOpenState.
C4_ProbeFailureReopens ==
  [][\A r \in Reqs :
       /\ (ResultStep(r) /\ breaker.state = "halfopen" /\ InWindow(r)
           /\ req[r].exec # "nil")
            => /\ breaker'.state = "open"
               /\ breaker'.expiry = now + 10
               /\ breaker'.lastChange = [from |-> "halfopen", to |-> "open"]
       /\ (/\ GateStep(r) /\ breaker.state = "open"
           /\ breaker.lastChange.from = "halfopen" /\ now <= breaker.expiry)
            => Rejected(req'[r], "ErrOpenState") /\ breaker' = breaker]_vars

\* A probe succeeded, the next one failed and reopened the breaker.
C4_Witness ==
  /\ breaker.state = "open"
  /\ breaker.lastChange = [from |-> "halfopen", to |-> "open"]
  /\ breaker.expiry = now + 10
  /\ \E r, p \in Reqs :
       /\ req[r].pc = "done" /\ req[r].exec \notin {"nil", "none"}
       /\ req[r].hist # <<>> /\ req[r].gen + 1 = breaker.generation
       /\ req[p].pc \in {"store", "lookup", "done"} /\ req[p].exec = "nil"
       /\ req[p].gen = req[r].gen

\* ---- C5
AllRetryable(h) == \A i \in 1..Len(h) : h[i] \in Retryable

Returned(q) == q.pc \in {"after", "store", "lookup", "done"} /\ q.hist # <<>>

\* C5: with RetryMax = k one call makes at most k+1 attempts; a further
\* attempt follows only a retryable failure; a call that succeeds after j <= k
\* retryable failures returns that success after exactly j+1 attempts; a call
\* whose attempts all fail retryably (and whose context is not cancelled)
\* returns after exactly k+1 attempts the failure of the last one (the
\* transport error, or "giving up" for a retried status); with k = 0 every
\* admitted call makes exactly one attempt.
C5_RetryBound ==
  \A r \in Reqs :
    LET q == req[r]
        n == Len(q.hist) IN
    /\ n <= retryMax + 1
    /\ q.pc \in {"attempt", "backoff"} => n <= retryMax /\ AllRetryable(q.hist)
    /\ q.pc = "backoff" => n >= 1
    /\ Returned(q) =>
         /\ AllRetryable(SubSeq(q.hist, 1, n - 1))
         /\ q.exec = "nil" <=> (q.hist[n] = "ok" /\ ~q.cancelled)
         /\ (AllRetryable(q.hist) /\ ~q.cancelled)
              => /\ n = retryMax + 1
                 /\ q.exec = IF q.hist[n] = "neterr" THEN "ErrTransport" ELSE "ErrGiveUp"
         /\ (q.hist[n] = "fatal" /\ ~q.cancelled) => q.exec = "ErrFatal"
         /\ retryMax = 0 => n = 1

\* With RetryMax = 2, two retryable failures and then a success: three attempts.
C5_Witness ==
  /\ retryMax = 2
  /\ \E r \in Reqs :
       /\ req[r].pc = "after" /\ req[r].exec = "nil"
       /\ Len(req[r].hist) = 3 /\ AllRetryable(SubSeq(req[r].hist, 1, 2))
       /\ req[r].hist[3] = "ok"

\* ---- C6
\* C6: when the context is cancelled at the retry decision after an attempt,
\* that attempt is the call's last one and the call returns the context's
\* error: not the attempt's own error, not "giving up", and not the response;
\* the breaker-guarded call then fails and the store is not asked.
C6_CancelStopsRetry ==
  /\ [](\A r \in Reqs :
          /\ req[r].exec = "ErrCanceled" => req[r].cancelled /\ ~req[r].stored
          /\ (req[r].cancelled /\ Returned(req[r])) => req[r].exec = "ErrCanceled")
  /\ [][\A r \in Reqs :
          /\ (req[r].pc = "attempt" /\ req[r].cancelled /\ req'[r] # req[r])
               => /\ req'[r].pc = "after"
                  /\ req'[r].exec = "ErrCanceled"
                  /\ Len(req'[r].hist) = Len(req[r].hist) + 1
          /\ (req[r].pc \in {"after", "store", "lookup"} /\ req'[r].pc # "idle")
               => req'[r].hist = req[r].hist]_vars

\* A retryable failure with retries left, but the context was cancelled when
\* the retry decision was taken.
C6_Witness ==
  \E r \in Reqs :
    /\ req[r].pc = "after" /\ req[r].exec = "ErrCanceled"
    /\ Len(req[r].hist) <= retryMax
    /\ req[r].hist[Len(req[r].hist)] \in Retryable

\* ---- C7
\* The number, in the binder's order, of the first source of `in` that fails
\* (0: none), given whether the body counts as failing.
FirstFailing(in, bodyFails) ==
  IF bodyFails THEN 1
  ELSE IF ~in.params THEN 2
  ELSE IF ~in.query THEN 3
  ELSE IF ~in.headers THEN 4
  ELSE 0

\* What C7 says of one request, for a given first failing source f.
BindingContract(q, f) ==
  /\ q.invoked <= 1
  /\ f # 0 => /\ q.pc = "done" /\ q.status = 400 /\ q.invoked = 0
              /\ q.tried = f /\ q.body = "error"
  /\ f = 0 => /\ q.tried = 4 /\ q.status # 400
              /\ q.pc \notin {"idle", "handle"} => q.invoked = 1

\* C7 as stated: the body fails when its decoding fails, except that an absent
\* or empty body is no failure.
C7_EmptyBodyNeverFails ==
  \A r \in Reqs :
    req[r].pc # "idle"
    => BindingContract(req[r],
         FirstFailing(req[r].in, req[r].in.ctype = "json" /\ req[r].in.body = "bad"))

\* C7 amended: the sources are bound in the order body, path parameters,
\* query, headers; binding stops at the first that fails, with 400 and without
\* a call of the handler, and otherwise the handler is called exactly once.
\* The body fails exactly when it comes with a supported Content-Type and
\* cannot be decoded, which includes an EMPTY body sent as application/json;
\* what is no failure is a body without a supported Content-Type
\* (ErrUnprocessableEntity), empty or not.
C7_UnprocessableNeverFails ==
  \A r \in Reqs :
    req[r].pc # "idle"
    => BindingContract(req[r],
         FirstFailing(req[r].in, req[r].in.ctype = "json" /\ req[r].in.body # "good"))

\* An empty body sent as application/json is answered 400 at the first source.
C7_Witness ==
  \E r \in Reqs :
    /\ req[r].pc = "done" /\ req[r].in.ctype = "json" /\ req[r].in.body = "empty"
    /\ req[r].in.params /\ req[r].in.query /\ req[r].in.headers
    /\ req[r].status = 400 /\ req[r].tried = 1 /\ req[r].invoked = 0

\* ---- C8
\* C8: a bound GET /products/:id is answered 200 only on success, 404 when the
\* store reports not found, 503 when the breaker rejects the call as open, and
\* 502 or 504 when the dependency call fails.
C8_StatusByFailureClass ==
  \A r \in Reqs :
    (req[r].pc = "done" /\ req[r].in.route = "GET" /\ req[r].status # 400)
    => CASE req[r].err = "nil" -> req[r].status = 200
         [] req[r].err = "ErrNotFound" -> req[r].status = 404
         [] req[r].err = "ErrOpenState" -> req[r].status = 503
         [] req[r].err \in {"ErrTransport", "ErrGiveUp", "ErrFatal", "ErrCanceled"}
              -> req[r].status \in {502, 504}
         [] OTHER -> req[r].status \notin {200, 404}

\* ---- C9
\* C9: POST /products with a well-formed body is answered 201 with the id that
\* was passed to ProductStore.Create together with the request's name (the
\* Name of the request value once the four sources are merged: that of the
\* last source carrying one) when Create succeeds, and with an error and no id
\* when it fails.
C9_CreatedStatus ==
  \A r \in Reqs :
    (/\ req[r].pc = "done" /\ req[r].in.route = "POST" /\ req[r].status # 400
     /\ req[r].in.ctype = "json" /\ req[r].in.body = "good")
    => /\ req[r].created.id \in Ids
       /\ req[r].created.name
            = (IF req[r].in.hname # "" THEN req[r].in.hname
               ELSE IF req[r].in.qname # "" THEN req[r].in.qname
               ELSE req[r].in.name)
       /\ IF req[r].err = "nil"
          THEN req[r].status = 201 /\ req[r].body = req[r].created.id
          ELSE req[r].status >= 400 /\ req[r].body = "error"

\* ---- C10
\* C10: within one GetProduct request the repository is asked only after the
\* breaker-guarded call of that request returned success (its last attempt
\* gave a response that is not retried); when that call returns an error,
\* whichever it is, the repository is not asked and the handler returns that
\* very error, with no product in the response.
C10_StoreAfterSuccess ==
  \A r \in Reqs :
    LET q == req[r] IN
    /\ (q.stored \/ q.pc \in {"store", "lookup"})
         => /\ q.exec = "nil" /\ q.hist # <<>>
            /\ q.hist[Len(q.hist)] = "ok" /\ q.invoked = 1
    /\ (q.exec \notin {"none", "nil"} /\ q.pc # "after")
         => /\ q.pc = "done" /\ ~q.stored /\ q.err = q.exec
            /\ q.body = "error" /\ q.status # 200

\* One request was refused by the open breaker and one was cancelled; neither
\* asked the repository.
C10_Witness ==
  \E r, p \in Reqs :
    /\ req[r].pc = "done" /\ req[r].exec = "ErrOpenState" /\ ~req[r].stored
    /\ req[p].pc = "done" /\ req[p].exec = "ErrCanceled" /\ ~req[p].stored

\* ---- C11
\* The step records the outcome of r's call in the counts: one more success or
\* one more failure and as many requests as before, or the change of state
\* that this outcome brings (which starts a new period with every count zero).
OutcomeCounted(r) ==
  LET c == breaker.counts
      d == breaker'.counts
      ok == req[r].exec = "nil" IN
  \/ /\ breaker'.generation = breaker.generation
     /\ breaker'.state = breaker.state
     /\ d.Requests = c.Requests
     /\ d.TotalSuccesses = c.TotalSuccesses + (IF ok THEN 1 ELSE 0)
     /\ d.TotalFailures = c.TotalFailures + (IF ok THEN 0 ELSE 1)
  \/ /\ breaker'.generation = breaker.generation + 1
     /\ d = ZeroCounts
     /\ <<breaker.state, breaker'.state>>
          \in (IF ok THEN {<<"halfopen", "closed">>}
                     ELSE {<<"closed", "open">>, <<"halfopen", "open">>})

\* The step records nothing: the breaker is as it was, or only the passing of
\* time showed in it (the Closed window started anew, Open became HalfOpen).
OutcomeDropped ==
  \/ breaker' = breaker
  \/ /\ breaker'.generation = breaker.generation + 1
     /\ breaker'.counts = ZeroCounts
     /\ <<breaker.state, breaker'.state>>
          \in {<<"closed", "closed">>, <<"open", "halfopen">>}

\* What holds of the counts in every state: the outcomes recorded never exceed
\* the calls admitted, the calls admitted in the present period are each either
\* still under way or recorded once, and HalfOpen admits at most 3 probes.
CountsAccount ==
  /\ breaker.counts.TotalSuccesses + breaker.counts.TotalFailures
       <= breaker.counts.Requests
  /\ breaker.counts.TotalSuccesses + breaker.counts.TotalFailures
       + Cardinality(InFlight) = breaker.counts.Requests
  /\ breaker.state = "halfopen" => breaker.counts.Requests <= 3

\* What holds of every step: only the admission and the return of a call touch
\* the breaker (the attempts of a call do not), and an admission adds one
\* request and no outcome.
CountsSteps ==
  /\ (\A r \in Reqs : ~GateStep(r) /\ ~ResultStep(r)) => breaker' = breaker
  /\ \A r \in Reqs :
       (GateStep(r) /\ req'[r].pc = "attempt")
       => /\ req'[r].gen = breaker'.generation
          /\ breaker'.counts.Requests
               = (IF breaker'.generation = breaker.generation
                  THEN breaker.counts.Requests ELSE 0) + 1
          /\ breaker'.counts.TotalSuccesses + breaker'.counts.TotalFailures
               = (IF breaker'.generation = breaker.generation
                  THEN breaker.counts.TotalSuccesses + breaker.counts.TotalFailures
                  ELSE 0)

\* C11 as stated: under every interleaving EVERY admitted call, when it
\* returns, adds exactly one outcome to the counts (none lost, none counted
\* twice, whatever its attempts), so that successes + failures <= requests in
\* every state and HalfOpen admits no more than 3 probes.
C11_EveryCallCounted ==
  /\ []CountsAccount
  /\ [][CountsSteps /\ \A r \in Reqs : ResultStep(r) => OutcomeCounted(r)]_vars

\* C11 amended: under every interleaving an admitted call adds AT MOST one
\* outcome to the counts, and only to those of the period it was admitted in:
\* exactly one when it returns while that period lasts, none when the period
\* ended before it returned (the breaker changed state, or the 5-second Closed
\* window ran out) - its outcome is then dropped and counted in no period.  The
\* attempts of a call do not touch the counts.  So in every state successes +
\* failures <= requests, the calls admitted in the present period are each
\* under way or recorded once, and HalfOpen admits no more than 3 probes.
C11_AtomicCounts ==
  /\ []CountsAccount
  /\ [][/\ CountsSteps
        /\ \A r \in Reqs :
             ResultStep(r) => IF InWindow(r) THEN OutcomeCounted(r) ELSE OutcomeDropped]_vars

\* HalfOpen with three probes admitted: two have succeeded and are recorded
\* (the response of one is still held), the third is under way.
C11_Witness ==
  /\ breaker.state = "halfopen"
  /\ breaker.counts.Requests = 3
  /\ breaker.counts.TotalSuccesses = 2
  /\ \E r, p \in Reqs :
       /\ req[r].pc \in {"attempt", "after"} /\ req[r].gen = breaker.generation
       /\ req[p].pc \in {"store", "lookup", "done"} /\ req[p].exec = "nil"
       /\ req[p].gen = breaker.generation

====
